---- MODULE Spec2Model ----
(***************************************************************************)
(* The task list of src/src/App.tsx: the React state of the App component, *)
(* its event handlers, its two effects on the "todos" entry of             *)
(* localStorage, and the derived view and statistics.                      *)
(*                                                                         *)
(* Strings are sequences of one-character strings, so that trim,           *)
(* toLowerCase and includes are computed as JavaScript computes them.      *)
(* A value that may be undefined or null is a sequence of length at most   *)
(* one: << >> is undefined/null, << v >> is the value v.                   *)
(*                                                                         *)
(* Date.now() is an input of the step that reads it.  showAddForm,         *)
(* showStats and inputRef decide only what is drawn and are left out.      *)
(***************************************************************************)
EXTENDS Integers, Sequences, FiniteSets, TLC

VARIABLES
    pc,                 \* where the component is in its life: see Init
    localStorage,       \* the value stored under the key "todos"
    todos,              \* useState<Todo[]>: the list of the last render
    queued,             \* the argument of a setTodos call not rendered yet
    input,              \* the add form's drafts
    priority,
    selectedCategory,   \* the add form's category select AND the view's filter
    newCategory,
    dueDate,
    notes,
    filter,             \* the view's parameters
    sort,
    searchTerm,
    editingTodo,        \* the edit in progress
    editText,
    draggedItem         \* the drag in progress

vars == << pc, localStorage, todos, queued, input, priority,
           selectedCategory, newCategory, dueDate, notes, filter, sort,
           searchTerm, editingTodo, editText, draggedItem >>

formVars == << input, priority, selectedCategory, newCategory, dueDate,
               notes >>
viewVars == << filter, sort, searchTerm >>
editVars == << editingTodo, editText >>

-----------------------------------------------------------------------------
(* Bounds of the model.                                                    *)

MaxTodos == 2       \* addTodo is not taken on a list this long
MaxSaved == 2       \* SpecRoundTrip: the longest stored list
MaxDrag == 4        \* SpecReorder: the longest list, and the largest id
MaxFilter == 2      \* SpecView: the longest list that varies what is filtered
MaxFrame == 2
MaxSort == 3        \* SpecView: the longest list that varies what is sorted

Instants == {1, 2}  \* the values Date.now() returns

-----------------------------------------------------------------------------
(* JavaScript values.                                                      *)

Undefined == << >>
Null == << >>
Some(v) == << v >>
EmptyString == << >>

IsTruthy(opt) == opt # Undefined /\ opt[1] # EmptyString

\* String.prototype.toLowerCase, on the model's alphabet.
LowerChar(c) ==
    CASE c = "A" -> "a"
      [] c = "B" -> "b"
      [] OTHER -> c

toLowerCase(s) == [i \in DOMAIN s |-> LowerChar(s[i])]

IsWhiteSpace(c) == c = " "

RECURSIVE trimStart(_)
trimStart(s) ==
    IF s # << >> /\ IsWhiteSpace(Head(s)) THEN trimStart(Tail(s)) ELSE s

RECURSIVE trimEnd(_)
trimEnd(s) ==
    IF s # << >> /\ IsWhiteSpace(s[Len(s)])
    THEN trimEnd(SubSeq(s, 1, Len(s) - 1))
    ELSE s

\* String.prototype.trim
\* A trim that leaves the string as it is.
trimNothing(s) == s

trim(s) == trimEnd(trimStart(s))

\* String.prototype.includes
includes(s, t) ==
    \E i \in 0..(Len(s) - Len(t)) : SubSeq(s, i + 1, i + Len(t)) = t

\* x || y on strings: the first if it is not empty, else the second.
\* An || that gives its second operand where that is truthy.
OrElseSecond(x, y) == IF y # EmptyString THEN y ELSE x

OrElse(x, y) == IF x # EmptyString THEN x ELSE y

\* x || undefined on strings.
OrUndefined(x) == IF x # EmptyString THEN Some(x) ELSE Undefined

-----------------------------------------------------------------------------
(* Dates.  The model's instants are the small integers the clock ranges    *)
(* over.  A Date object is [time |-> instant]; the value of an             *)
(* <input type="date"> is the string << n >>, which new Date(value) reads  *)
(* as the instant n.                                                       *)

NewDate(ms) == [time |-> ms]

DateOfString(d) == NewDate(d[1])

getTime(date) == date.time

\* Date.prototype.toJSON gives the ISO string; new Date(iso) reads it back.
toISOString(date) == [iso |-> date.time]

DateOfISO(s) == NewDate(s.iso)

-----------------------------------------------------------------------------
(* Tasks.                                                                  *)

Priorities == {"low", "medium", "high"}

Todo(id, text, completed, prio, category, due, createdAt, note) ==
    [id |-> id, text |-> text, completed |-> completed, priority |-> prio,
     category |-> category, dueDate |-> due, createdAt |-> createdAt,
     notes |-> note]

\* { ...todo, completed: !todo.completed } and the like
WithCompleted(todo, c) == [todo EXCEPT !.completed = c]
WithText(todo, t) == [todo EXCEPT !.text = t]
WithPriority(todo, p) == [todo EXCEPT !.priority = p]

\* Array.prototype.map, filter, findIndex (0 where JavaScript gives -1:
\* the model's sequences start at 1)
Map(list, F(_)) == [i \in DOMAIN list |-> F(list[i])]

Filter(list, P(_)) == SelectSeq(list, P)

FindIndex(list, P(_)) ==
    IF \E i \in DOMAIN list : P(list[i])
    THEN CHOOSE i \in DOMAIN list :
             P(list[i]) /\ \A j \in 1..(i - 1) : ~P(list[j])
    ELSE 0

-----------------------------------------------------------------------------
(* The stored value.  getItem gives null when the key is absent, else the  *)
(* stored string: one that JSON.parse rejects, one that parses to          *)
(* something that is no array, or the JSON text of an array of records.    *)

Blob(kind, items) == [kind |-> kind, items |-> items]

Absent == Blob("absent", << >>)
Unparseable == Blob("unparseable", << >>)
NonArray == Blob("nonarray", << >>)

\* JSON.stringify of one task: a Date becomes its ISO string, and a property
\* whose value is undefined is left out (it reads back as undefined).
TodoToJSON(todo) == [todo EXCEPT !.createdAt = toISOString(todo.createdAt)]

\* JSON.stringify(todos)
Stringify(list) == Blob("array", Map(list, TodoToJSON))

\* A hydration that leaves createdAt the string it was stored as.
ReviveTodoAsStored(json) == json

\* { ...todo, createdAt: new Date(todo.createdAt) }
ReviveTodo(json) == [json EXCEPT !.createdAt = DateOfISO(json.createdAt)]

\* JSON.parse(savedTodos).map(...)
ParseTodos(blob) == Map(blob.items, ReviveTodo)

-----------------------------------------------------------------------------
(* Array.prototype.splice.                                                 *)

\* list.splice(start, 1) with 0 <= start < length: the list without the
\* element at the 0-based index start
SpliceOut(list, start) ==
    SubSeq(list, 1, start) \o SubSeq(list, start + 2, Len(list))

\* list.splice(start, 0, item): item put in at the 0-based index start, or at
\* the end when start is beyond it
SpliceIn(list, start, item) ==
    LET at == IF start > Len(list) THEN Len(list) ELSE start
    IN  SubSeq(list, 1, at) \o << item >> \o SubSeq(list, at + 1, Len(list))

-----------------------------------------------------------------------------
(* String.prototype.localeCompare on the model's alphabet: letters compare *)
(* without case first, a blank before any letter and a prefix before the   *)
(* longer string; strings equal that far compare lower case before upper.  *)

PrimaryWeight(c) ==
    CASE c = " " -> 0
      [] c \in {"a", "A"} -> 1
      [] c \in {"b", "B"} -> 2
      [] OTHER -> 3

CaseWeight(c) == IF c \in {"A", "B"} THEN 1 ELSE 0

Weight(c, level) == IF level = 1 THEN PrimaryWeight(c) ELSE CaseWeight(c)

RECURSIVE CompareWeights(_, _, _)
CompareWeights(s, t, level) ==
    CASE s = << >> /\ t = << >> -> 0
      [] s = << >> /\ t # << >> -> -1
      [] s # << >> /\ t = << >> -> 1
      [] OTHER ->
            IF Weight(Head(s), level) # Weight(Head(t), level)
            THEN (IF Weight(Head(s), level) < Weight(Head(t), level)
                  THEN -1 ELSE 1)
            ELSE CompareWeights(Tail(s), Tail(t), level)

localeCompare(s, t) ==
    LET primary == CompareWeights(s, t, 1)
    IN  IF primary # 0 THEN primary ELSE CompareWeights(s, t, 3)

-----------------------------------------------------------------------------
(* The derived view: filteredAndSortedTodos.                               *)

Filters == {"all", "active", "completed"}
Sorts == {"created", "priority", "dueDate", "alphabetical"}

StatusFilter(todo, f) ==
    CASE f = "active" -> ~todo.completed
      [] f = "completed" -> todo.completed
      [] OTHER -> TRUE

\* A search that looks at the text alone.
SearchFilterTextOnly(todo, term) ==
    includes(toLowerCase(todo.text), toLowerCase(term))

SearchFilter(todo, term) ==
    \/ includes(toLowerCase(todo.text), toLowerCase(term))
    \/ /\ IsTruthy(todo.notes)
       /\ includes(toLowerCase(todo.notes[1]), toLowerCase(term))

CategoryFilter(todo, selected) ==
    selected = EmptyString \/ todo.category = selected

priorityOrder(p) ==
    CASE p = "high" -> 3
      [] p = "medium" -> 2
      [] p = "low" -> 1

\* A comparison that puts the low priorities first.
ComparePriorityAscending(a, b) ==
    priorityOrder(a.priority) - priorityOrder(b.priority)

ComparePriority(a, b) == priorityOrder(b.priority) - priorityOrder(a.priority)

\* A comparison that leaves a task without a due date where it is.
CompareDueDateUndefinedEqual(a, b) ==
    IF ~IsTruthy(a.dueDate) \/ ~IsTruthy(b.dueDate) THEN 0
    ELSE getTime(DateOfString(a.dueDate[1]))
           - getTime(DateOfString(b.dueDate[1]))

CompareDueDate(a, b) ==
    CASE ~IsTruthy(a.dueDate) /\ ~IsTruthy(b.dueDate) -> 0
      [] ~IsTruthy(a.dueDate) -> 1
      [] ~IsTruthy(b.dueDate) -> -1
      [] OTHER -> getTime(DateOfString(a.dueDate[1]))
                    - getTime(DateOfString(b.dueDate[1]))

CompareAlphabetical(a, b) == localeCompare(a.text, b.text)

CompareCreated(a, b) == getTime(b.createdAt) - getTime(a.createdAt)

CompareTodos(a, b, by) ==
    CASE by = "priority" -> ComparePriority(a, b)
      [] by = "dueDate" -> CompareDueDate(a, b)
      [] by = "alphabetical" -> CompareAlphabetical(a, b)
      [] OTHER -> CompareCreated(a, b)

\* One step of a stable sort: item goes behind the last element of the sorted
\* list that is not greater than it.
InsertSorted(sorted, item, by) ==
    LET notGreater == {i \in DOMAIN sorted : CompareTodos(sorted[i], item, by) <= 0}
        at == IF notGreater = {} THEN 0
              ELSE CHOOSE i \in notGreater : \A j \in notGreater : j <= i
    IN  SpliceIn(sorted, at, item)

\* Array.prototype.sort((a, b) => ...): stable since ES2019
RECURSIVE SortWith(_, _)
SortWith(list, by) ==
    IF list = << >> THEN << >>
    ELSE InsertSorted(SortWith(SubSeq(list, 1, Len(list) - 1), by),
                      list[Len(list)], by)

FilteredTodos(list, f, term, selected) ==
    Filter(Filter(Filter(list,
                         LAMBDA t : StatusFilter(t, f)),
                  LAMBDA t : SearchFilter(t, term)),
           LAMBDA t : CategoryFilter(t, selected))

FilteredAndSortedTodos(list, f, term, selected, by) ==
    SortWith(FilteredTodos(list, f, term, selected), by)

filteredAndSortedTodos ==
    FilteredAndSortedTodos(todos, filter, searchTerm, selectedCategory, sort)

\* Array.from(new Set(todos.map(category).filter(Boolean))): as a set
categories ==
    {todos[i].category : i \in DOMAIN todos} \ {EmptyString}

-----------------------------------------------------------------------------
(* The statistics of a list, computed at the instant now.                  *)

isOverdue(due, now) ==
    IsTruthy(due) /\ getTime(DateOfString(due[1])) < now

Stats(list, now) ==
    [total |-> Len(list),
     completed |-> Len(Filter(list, LAMBDA t : t.completed)),
     active |-> Len(Filter(list, LAMBDA t : ~t.completed)),
     overdue |-> Len(Filter(list, LAMBDA t :
                     isOverdue(t.dueDate, now) /\ ~t.completed))]

-----------------------------------------------------------------------------
(* Inputs of the model.                                                    *)

Ids == Instants                             \* every id an add can assign
Inputs == {<< " " >>, << " ", "a" >>}       \* typed into the add form
EditTexts == {<< " " >>, << "B", " " >>}    \* typed into the edit box
Categories == {<< "w" >>}
DueDates == {<< 1 >>}                       \* values of the date input
Notes == {<< "A", "b" >>}
SearchTerms == {EmptyString, << "a" >>, << "B" >>}
NewPriorities == {"medium", "high"}         \* picked in a task's select

\* Every list of at most n elements of S
ListsOf(S, n) == UNION {[1..k -> S] : k \in 0..n}

-----------------------------------------------------------------------------
(* The state after the page is loaded and before the component renders.    *)

InitialState ==
    /\ todos = << >>
    /\ queued = << >>
    /\ input = EmptyString
    /\ filter = "all"
    /\ sort = "created"
    /\ searchTerm = EmptyString
    /\ selectedCategory = EmptyString
    /\ newCategory = EmptyString
    /\ priority = "medium"
    /\ dueDate = EmptyString
    /\ notes = EmptyString
    /\ editingTodo = Null
    /\ editText = EmptyString
    /\ draggedItem = Null

\* pc: "init"    the page is loaded, the component is not rendered yet
\*     "mounted" first render done (todos = []), the mount effects pending
\*     "loaded"  the load effect has run, the save effect is pending
\*     "dirty"   a setTodos is queued: React renders before the next event
\*     "ready"   rendered, effects run: the next event is accepted
\*     "crashed" an effect threw: React has unmounted the component
Init ==
    /\ pc = "init"
    /\ localStorage \in {Absent, Unparseable, NonArray, Stringify(<< >>)}
    /\ InitialState

-----------------------------------------------------------------------------
(* Mounting: the first render, then the two effects in source order, then  *)
(* the render of what the load effect queued.                              *)

Mount ==
    /\ pc = "init"
    /\ pc' = "mounted"
    /\ UNCHANGED << localStorage, todos, queued, formVars, viewVars,
                    editVars, draggedItem >>

\* useEffect(() => { ... }, []): load todos from localStorage
LoadEffect ==
    /\ pc = "mounted"
    /\ CASE localStorage.kind = "absent" ->
                pc' = "loaded" /\ UNCHANGED queued
         [] localStorage.kind = "array" ->
                pc' = "loaded" /\ queued' = Some(ParseTodos(localStorage))
         [] OTHER ->
                \* JSON.parse throws, or .map is not a function
                pc' = "crashed" /\ UNCHANGED queued
    /\ UNCHANGED << localStorage, todos, formVars, viewVars, editVars,
                    draggedItem >>

\* A save effect that writes nothing.
SaveEffectSkipped(list) == UNCHANGED localStorage

\* useEffect(() => { localStorage.setItem(...) }, [todos])
SaveEffect(list) == localStorage' = Stringify(list)

SaveEffectOnMount ==
    /\ pc = "loaded"
    /\ SaveEffect(todos)
    /\ pc' = IF queued = << >> THEN "ready" ELSE "dirty"
    /\ UNCHANGED << todos, queued, formVars, viewVars, editVars,
                    draggedItem >>

\* The render after a setTodos: the component function runs with the new
\* list, and the save effect runs since todos is another array.
Render ==
    /\ pc = "dirty"
    /\ todos' = queued[1]
    /\ queued' = << >>
    /\ SaveEffect(todos')
    /\ pc' = "ready"
    /\ UNCHANGED << formVars, viewVars, editVars, draggedItem >>

\* A setTodos after which the next event is handled before React renders.
setTodosNotRendered(list) == queued' = Some(list) /\ pc' = pc

\* setTodos(list), called from a handler
setTodos(list) == queued' = Some(list) /\ pc' = "dirty"

\* The page is loaded again: the stored value stays, the state is new.
Reload ==
    /\ pc \in {"ready", "crashed"}
    /\ pc' = "init"
    /\ todos' = << >> /\ queued' = << >>
    /\ input' = EmptyString /\ filter' = "all" /\ sort' = "created"
    /\ searchTerm' = EmptyString /\ selectedCategory' = EmptyString
    /\ newCategory' = EmptyString /\ priority' = "medium"
    /\ dueDate' = EmptyString /\ notes' = EmptyString
    /\ editingTodo' = Null
    /\ editText' = EmptyString /\ draggedItem' = Null
    /\ UNCHANGED localStorage

-----------------------------------------------------------------------------
(* The handlers.  Each runs on the state of the last render (pc = "ready") *)
(* and, where it calls setTodos, leaves the new list queued for Render.    *)
(* What a handler sets besides todos is no input of Render and is written  *)
(* at once.                                                                *)

resetForm ==
    /\ input' = EmptyString
    /\ selectedCategory' = EmptyString
    /\ newCategory' = EmptyString
    /\ priority' = "medium"
    /\ dueDate' = EmptyString
    /\ notes' = EmptyString

\* The task addTodo builds; Date.now() and new Date() read the same instant.
NewTodo(now) ==
    Todo(now, trim(input), FALSE, priority,
         OrElse(selectedCategory, newCategory), OrUndefined(dueDate),
         NewDate(now), OrUndefined(notes))

AddTodoList(list, now) == << NewTodo(now) >> \o list

addTodo(now) ==
    /\ pc = "ready"
    /\ \/ /\ trim(input) = EmptyString
          /\ UNCHANGED vars
       \/ /\ trim(input) # EmptyString
          /\ Len(todos) < MaxTodos
          /\ setTodos(AddTodoList(todos, now))
          /\ resetForm
          /\ UNCHANGED << localStorage, todos, viewVars, editVars,
                          draggedItem >>

\* A toggle that marks the task completed, whatever it was.
ToggleListSetsCompleted(list, id) ==
    Map(list, LAMBDA t : IF t.id = id THEN WithCompleted(t, TRUE) ELSE t)

ToggleList(list, id) ==
    Map(list, LAMBDA t : IF t.id = id THEN WithCompleted(t, ~t.completed)
                         ELSE t)

toggleTodo(id) ==
    /\ pc = "ready"
    /\ setTodos(ToggleList(todos, id))
    /\ UNCHANGED << localStorage, todos, formVars, viewVars, editVars,
                    draggedItem >>

DeleteList(list, id) == Filter(list, LAMBDA t : t.id # id)

deleteTodo(id) ==
    /\ pc = "ready"
    /\ setTodos(DeleteList(todos, id))
    /\ UNCHANGED << localStorage, todos, formVars, viewVars, editVars,
                    draggedItem >>

startEdit(todo) ==
    /\ pc = "ready"
    /\ editingTodo' = Some(todo.id)
    /\ editText' = todo.text
    /\ UNCHANGED << pc, localStorage, todos, queued, formVars,
                    viewVars, draggedItem >>

\* onChange of the edit box, shown for the task being edited
setEditText(text) ==
    /\ pc = "ready"
    /\ editingTodo # Null
    /\ editText' = text
    /\ UNCHANGED << pc, localStorage, todos, queued, formVars,
                    viewVars, editingTodo, draggedItem >>

EditList(list, id, text) ==
    Map(list, LAMBDA t : IF t.id = id THEN WithText(t, trim(text)) ELSE t)

saveEdit(id) ==
    /\ pc = "ready"
    /\ \/ /\ trim(editText) = EmptyString
          /\ UNCHANGED vars
       \/ /\ trim(editText) # EmptyString
          /\ setTodos(EditList(todos, id, editText))
          /\ editingTodo' = Null
          /\ editText' = EmptyString
          /\ UNCHANGED << localStorage, todos, formVars, viewVars,
                          draggedItem >>

cancelEdit ==
    /\ pc = "ready"
    /\ editingTodo' = Null
    /\ editText' = EmptyString
    /\ UNCHANGED << pc, localStorage, todos, queued, formVars,
                    viewVars, draggedItem >>

\* An update that gives every task the new priority.
PriorityListOfAll(list, id, newPriority) ==
    Map(list, LAMBDA t : WithPriority(t, newPriority))

PriorityList(list, id, newPriority) ==
    Map(list, LAMBDA t : IF t.id = id THEN WithPriority(t, newPriority)
                         ELSE t)

updatePriority(id, newPriority) ==
    /\ pc = "ready"
    /\ setTodos(PriorityList(todos, id, newPriority))
    /\ UNCHANGED << localStorage, todos, formVars, viewVars, editVars,
                    draggedItem >>

\* A clearing that keeps the completed tasks and drops the others.
ClearCompletedListInverted(list) == Filter(list, LAMBDA t : t.completed)

ClearCompletedList(list) == Filter(list, LAMBDA t : ~t.completed)

clearCompleted ==
    /\ pc = "ready"
    /\ setTodos(ClearCompletedList(todos))
    /\ UNCHANGED << localStorage, todos, formVars, viewVars, editVars,
                    draggedItem >>

MarkAllList(list) == Map(list, LAMBDA t : WithCompleted(t, TRUE))

markAllComplete ==
    /\ pc = "ready"
    /\ setTodos(MarkAllList(todos))
    /\ UNCHANGED << localStorage, todos, formVars, viewVars, editVars,
                    draggedItem >>

handleDragStart(id) ==
    /\ pc = "ready"
    /\ draggedItem' = Some(id)
    /\ UNCHANGED << pc, localStorage, todos, queued, formVars,
                    viewVars, editVars >>

\* A drop that allows for the removal when the target lies behind the dragged
\* task: the task ends up in front of the target.
DropListBeforeTarget(list, draggedId, targetId) ==
    LET draggedIndex == FindIndex(list, LAMBDA t : t.id = draggedId) - 1
        targetIndex == FindIndex(list, LAMBDA t : t.id = targetId) - 1
        draggedTodo == list[draggedIndex + 1]
        at == IF draggedIndex < targetIndex THEN targetIndex - 1
              ELSE targetIndex
    IN  SpliceIn(SpliceOut(list, draggedIndex), at, draggedTodo)

\* A drop that puts the task in behind the target.
DropListAfterTarget(list, draggedId, targetId) ==
    LET draggedIndex == FindIndex(list, LAMBDA t : t.id = draggedId) - 1
        targetIndex == FindIndex(list, LAMBDA t : t.id = targetId) - 1
        draggedTodo == list[draggedIndex + 1]
    IN  SpliceIn(SpliceOut(list, draggedIndex), targetIndex + 1, draggedTodo)

\* The list handleDrop passes to setTodos, for ids both found in the list.
DropList(list, draggedId, targetId) ==
    LET draggedIndex == FindIndex(list, LAMBDA t : t.id = draggedId) - 1
        targetIndex == FindIndex(list, LAMBDA t : t.id = targetId) - 1
        draggedTodo == list[draggedIndex + 1]
    IN  SpliceIn(SpliceOut(list, draggedIndex), targetIndex, draggedTodo)

\* Whether handleDrop returns before it changes anything.
DropReturnsEarly(list, dragged, targetId) ==
    IF dragged = Null THEN TRUE
    ELSE \/ FindIndex(list, LAMBDA t : t.id = dragged[1]) = 0
         \/ FindIndex(list, LAMBDA t : t.id = targetId) = 0

handleDrop(targetId) ==
    /\ pc = "ready"
    /\ \/ /\ DropReturnsEarly(todos, draggedItem, targetId)
          /\ UNCHANGED vars
       \/ /\ ~DropReturnsEarly(todos, draggedItem, targetId)
          /\ setTodos(DropList(todos, draggedItem[1], targetId))
          /\ draggedItem' = Null
          /\ UNCHANGED << localStorage, todos, formVars, viewVars,
                          editVars >>

-----------------------------------------------------------------------------
(* The controls: each sets one piece of state, and React renders.          *)

\* The form's Cancel button
cancelForm ==
    /\ pc = "ready"
    /\ resetForm
    /\ UNCHANGED << pc, localStorage, todos, queued, viewVars,
                    editVars, draggedItem >>

setInput(text) ==
    /\ pc = "ready"
    /\ input' = text
    /\ UNCHANGED << pc, localStorage, todos, queued, priority,
                    selectedCategory, newCategory, dueDate, notes, viewVars, editVars, draggedItem >>

setPriority(p) ==
    /\ pc = "ready"
    /\ priority' = p
    /\ UNCHANGED << pc, localStorage, todos, queued, input,
                    selectedCategory, newCategory, dueDate, notes, viewVars, editVars, draggedItem >>

\* Both selects offer "" and the categories of the tasks.
setSelectedCategory(category) ==
    /\ pc = "ready"
    /\ category \in categories \cup {EmptyString}
    /\ selectedCategory' = category
    /\ UNCHANGED << pc, localStorage, todos, queued, input, priority,
                    newCategory, dueDate, notes, viewVars,
                    editVars, draggedItem >>

setNewCategory(category) ==
    /\ pc = "ready"
    /\ newCategory' = category
    /\ UNCHANGED << pc, localStorage, todos, queued, input, priority,
                    selectedCategory, dueDate, notes, viewVars,
                    editVars, draggedItem >>

setDueDate(date) ==
    /\ pc = "ready"
    /\ dueDate' = date
    /\ UNCHANGED << pc, localStorage, todos, queued, input, priority,
                    selectedCategory, newCategory, notes,
                    viewVars, editVars, draggedItem >>

setNotes(text) ==
    /\ pc = "ready"
    /\ notes' = text
    /\ UNCHANGED << pc, localStorage, todos, queued, input, priority,
                    selectedCategory, newCategory, dueDate,
                    viewVars, editVars, draggedItem >>

setFilter(f) ==
    /\ pc = "ready"
    /\ filter' = f
    /\ UNCHANGED << pc, localStorage, todos, queued, formVars, sort,
                    searchTerm, editVars, draggedItem >>

\* A sort control that sorts the list of tasks itself.
setSortInPlace(by) ==
    /\ pc = "ready"
    /\ sort' = by
    /\ todos' = SortWith(todos, by)
    /\ UNCHANGED << pc, localStorage, queued, formVars, filter,
                    searchTerm, editVars, draggedItem >>

setSort(by) ==
    /\ pc = "ready"
    /\ sort' = by
    /\ UNCHANGED << pc, localStorage, todos, queued, formVars, filter,
                    searchTerm, editVars, draggedItem >>

setSearchTerm(term) ==
    /\ pc = "ready"
    /\ searchTerm' = term
    /\ UNCHANGED << pc, localStorage, todos, queued, formVars, filter,
                    sort, editVars, draggedItem >>

-----------------------------------------------------------------------------
(* Spec: the component from page load on, with every operation that        *)
(* changes the list.  The form's other fields and the view's parameters    *)
(* stay as they start.                                                     *)

Next ==
    \/ Mount
    \/ LoadEffect
    \/ SaveEffectOnMount
    \/ Render
    \/ Reload
    \/ \E text \in Inputs : setInput(text)
    \/ \E now \in Instants : addTodo(now)
    \/ \E id \in Ids : toggleTodo(id)
    \/ \E id \in Ids : deleteTodo(id)
    \/ \E i \in DOMAIN todos : startEdit(todos[i])
    \/ \E text \in EditTexts : setEditText(text)
    \/ \E id \in Ids : saveEdit(id)
    \/ cancelEdit
    \/ \E id \in Ids, p \in NewPriorities : updatePriority(id, p)
    \/ clearCompleted
    \/ markAllComplete
    \/ \E id \in Ids : handleDragStart(id)
    \/ \E id \in Ids : handleDrop(id)

Spec == Init /\ [][Next]_vars

-----------------------------------------------------------------------------
(* The running component with a given list: rendered, effects run.         *)

Running(list) ==
    /\ pc = "ready"
    /\ todos = list
    /\ localStorage = Stringify(list)
    /\ queued = << >>
    /\ input = EmptyString
    /\ filter = "all"
    /\ sort = "created"
    /\ searchTerm = EmptyString
    /\ selectedCategory = EmptyString
    /\ newCategory = EmptyString
    /\ priority = "medium"
    /\ dueDate = EmptyString
    /\ notes = EmptyString
    /\ editingTodo = Null
    /\ editText = EmptyString

-----------------------------------------------------------------------------
(* SpecRoundTrip: a list has been saved, and the page is loaded again.     *)

SavedTodos ==
    {Todo(id, << "a" >>, c, p, cat, due, NewDate(id), note) :
        id \in Ids, c \in BOOLEAN, p \in NewPriorities,
        cat \in Categories \cup {EmptyString},
        due \in {Some(d) : d \in DueDates} \cup {Undefined},
        note \in {Some(n) : n \in Notes} \cup {Undefined}}

InitRoundTrip ==
    /\ \E list \in ListsOf(SavedTodos, MaxSaved) : Running(list)
    /\ draggedItem = Null

NextRoundTrip ==
    \/ Reload
    \/ Mount
    \/ LoadEffect
    \/ SaveEffectOnMount
    \/ Render

SpecRoundTrip == InitRoundTrip /\ [][NextRoundTrip]_vars

-----------------------------------------------------------------------------
(* SpecReorder: dragging and dropping in a list of tasks with ids          *)
(* 1..MaxDrag, some of them twice; the drag in progress may be of a task   *)
(* that is no longer in the list.  The tasks with the two lowest ids come  *)
(* with either of two texts, so that two tasks of one id can be told       *)
(* apart.                                                                  *)

DragIds == 1..MaxDrag

DragTexts(id) == IF id <= 2 THEN {<< "a" >>, << "B" >>} ELSE {<< "a" >>}

DragTodos ==
    UNION {{Todo(id, text, FALSE, "medium", EmptyString, Undefined,
                 NewDate(id), Undefined) : text \in DragTexts(id)}
           : id \in DragIds}

InitReorder ==
    /\ \E list \in ListsOf(DragTodos, MaxDrag) : Running(list)
    /\ draggedItem \in {Null} \cup {Some(id) : id \in DragIds}

NextReorder ==
    \/ \E id \in {todos[i].id : i \in DOMAIN todos} : handleDragStart(id)
    \/ \E id \in DragIds : handleDrop(id)
    \/ Render

SpecReorder == InitReorder /\ [][NextReorder]_vars

-----------------------------------------------------------------------------
(* SpecView: the view of a given list under every choice of filter, sort,  *)
(* search term and category.  The lists are as addTodo builds them, the    *)
(* newest task first: the task at index i of n has id n + 1 - i.           *)

FilterShapes ==
    {Todo(0, text, c, "medium", cat, Undefined, NewDate(0), note) :
        text \in {<< "a" >>, << "A", " ", "b" >>}, c \in BOOLEAN,
        cat \in Categories \cup {EmptyString},
        note \in {Some(n) : n \in Notes} \cup {Undefined}}

SortShapes ==
    {Todo(0, << "a" >>, FALSE, p, EmptyString, due, NewDate(0), Undefined) :
        p \in Priorities,
        due \in {Some(<< 1 >>), Some(<< 2 >>), Undefined}}

Numbered(shapes) ==
    [i \in DOMAIN shapes |->
        [shapes[i] EXCEPT !.id = Len(shapes) + 1 - i,
                          !.createdAt = NewDate(Len(shapes) + 1 - i)]]

ViewLists ==
    {Numbered(shapes) : shapes \in ListsOf(FilterShapes, MaxFilter)
                                       \cup ListsOf(SortShapes, MaxSort)}

InitView ==
    /\ \E list \in ViewLists : Running(list)
    /\ draggedItem = Null

NextView ==
    \/ \E f \in Filters : setFilter(f)
    \/ \E by \in Sorts : setSort(by)
    \/ \E term \in SearchTerms : setSearchTerm(term)
    \/ \E category \in Categories \cup {EmptyString} :
           setSelectedCategory(category)

SpecView == InitView /\ [][NextView]_vars

-----------------------------------------------------------------------------
(* SpecStats: tasks with and without a due date are added and toggled.     *)

InitStats ==
    /\ Running(<< >>)
    /\ draggedItem = Null

NextStats ==
    \/ \E text \in Inputs : setInput(text)
    \/ \E date \in DueDates \cup {EmptyString} : setDueDate(date)
    \/ \E now \in Instants : addTodo(now)
    \/ \E id \in Ids : toggleTodo(id)
    \/ Render

SpecStats == InitStats /\ [][NextStats]_vars

-----------------------------------------------------------------------------
(* SpecFrame: the controls of the view at work on a list that is added to, *)
(* toggled in and deleted from.                                            *)

FrameTodos ==
    {Todo(id, << "a" >>, c, "medium", cat, Undefined, NewDate(id),
          Undefined) :
        id \in Ids, c \in BOOLEAN, cat \in Categories \cup {EmptyString}}

InitFrame ==
    /\ \E list \in ListsOf(FrameTodos, MaxFrame) : Running(list)
    /\ draggedItem = Null

NextFrame ==
    \/ \E f \in Filters : setFilter(f)
    \/ \E by \in Sorts : setSort(by)
    \/ \E term \in SearchTerms : setSearchTerm(term)
    \/ \E category \in Categories \cup {EmptyString} :
           setSelectedCategory(category)
    \/ \E text \in Inputs : setInput(text)
    \/ \E now \in Instants : addTodo(now)
    \/ \E id \in Ids : toggleTodo(id)
    \/ \E id \in Ids : deleteTodo(id)
    \/ Render

SpecFrame == InitFrame /\ [][NextFrame]_vars

-----------------------------------------------------------------------------
(* SpecForm: the form is filled in, with a category chosen among those of  *)
(* the tasks or typed in as a new one, and tasks are added while the view  *)
(* is filtered and sorted.                                                 *)

FormCategories == {<< "w" >>, << "h" >>}

InitForm ==
    /\ Running(<< >>)
    /\ draggedItem = Null

NextForm ==
    \/ \E text \in Inputs : setInput(text)
    \/ \E category \in FormCategories \cup {EmptyString} :
           setSelectedCategory(category)
    \/ \E category \in FormCategories \cup {EmptyString} :
           setNewCategory(category)
    \/ \E f \in Filters : setFilter(f)
    \/ \E by \in Sorts : setSort(by)
    \/ \E term \in SearchTerms : setSearchTerm(term)
    \/ \E now \in Instants : addTodo(now)
    \/ Render

SpecForm == InitForm /\ [][NextForm]_vars

-----------------------------------------------------------------------------
(* SpecSequence: the handlers that change the list, one event after        *)
(* another, from the empty list on; an edit is saved with the text the     *)
(* edit box was opened with.                                               *)

InitSequence ==
    /\ Running(<< >>)
    /\ draggedItem = Null

NextSequence ==
    \/ \E text \in Inputs : setInput(text)
    \/ \E now \in Instants : addTodo(now)
    \/ \E id \in Ids : toggleTodo(id)
    \/ \E id \in Ids : deleteTodo(id)
    \/ \E i \in DOMAIN todos : startEdit(todos[i])
    \/ \E id \in Ids : saveEdit(id)
    \/ \E id \in Ids, p \in NewPriorities : updatePriority(id, p)
    \/ clearCompleted
    \/ markAllComplete
    \/ \E id \in Ids : handleDragStart(id)
    \/ \E id \in Ids : handleDrop(id)
    \/ Render

SpecSequence == InitSequence /\ [][NextSequence]_vars

-----------------------------------------------------------------------------
(* The claims.                                                             *)

IdsOf(list) == [i \in DOMAIN list |-> list[i].id]

Mounted == pc \in {"ready", "dirty"}

\* C1: the ids of the tasks of the list are pairwise distinct in every
\* reachable state, whatever Date.now() returns, also when two adds read
\* the same instant.
C1_IdsDistinct ==
    \A i, j \in DOMAIN todos : i # j => todos[i].id # todos[j].id

\* C3: startup never ends in an error state: with the stored value absent or
\* malformed, the load effect does not throw, and the component comes up
\* with the empty list and goes on.
C3_HydrationNeverFails == pc # "crashed"

C2_RoundTrip ==
    [][ /\ (pc = "mounted" /\ pc' = "loaded" /\ localStorage.kind = "array")
            => /\ queued' # << >>
               /\ Len(queued'[1]) = Len(localStorage.items)
               /\ \A i \in DOMAIN localStorage.items : \A todo \in SavedTodos :
                      TodoToJSON(todo) = localStorage.items[i]
                          => queued'[1][i] = todo
        /\ (pc = "dirty" /\ pc' = "ready") => todos' = queued[1]
      ]_vars

\* C2, witness: a stored list of two tasks, one with a due date, notes and a
\* category and one without, has been read back and is about to be rendered.
C2_Witness ==
    /\ pc = "dirty"
    /\ todos = << >>
    /\ Len(queued[1]) = 2
    /\ queued[1][1].dueDate # Undefined /\ queued[1][1].notes # Undefined
    /\ queued[1][1].category # EmptyString /\ queued[1][1].completed
    /\ queued[1][2].dueDate = Undefined /\ queued[1][2].notes = Undefined
    /\ queued[1][1].createdAt # queued[1][2].createdAt

\* The cases in which the claim has handleDrop change nothing.
DropReturnsEarlyAsClaimed(targetId) ==
    \/ draggedItem = Null
    \/ \A i \in DOMAIN todos : todos[i].id # draggedItem[1]
    \/ \A i \in DOMAIN todos : todos[i].id # targetId

IndexOfId(list, id) == FindIndex(list, LAMBDA t : t.id = id)

Without(list, i) == SubSeq(list, 1, i - 1) \o SubSeq(list, i + 1, Len(list))

\* C5, as the specification states it: dropping task 3 on task 1 in the
\* list [1, 2, 3, 4] gives [2, 3, 1, 4].
C5_AsStated ==
    (IdsOf(todos) = << 1, 2, 3, 4 >> /\ draggedItem = Some(3))
        => IdsOf(DropList(todos, 3, 1)) = << 2, 3, 1, 4 >>

\* C5, amended: dropping task 3 on task 1 in the list [1, 2, 3, 4] gives
\* [3, 1, 2, 4]: task 3 is taken out and put in at the index task 1 had.
C5_Example ==
    (IdsOf(todos) = << 1, 2, 3, 4 >> /\ draggedItem = Some(3))
        => IdsOf(DropList(todos, 3, 1)) = << 3, 1, 2, 4 >>

\* C5, witness: the drop has been handled, and [3, 1, 2, 4] waits to be
\* rendered in place of [1, 2, 3, 4].
C5_Witness ==
    /\ pc = "dirty"
    /\ IdsOf(todos) = << 1, 2, 3, 4 >>
    /\ IdsOf(queued[1]) = << 3, 1, 2, 4 >>
    /\ draggedItem = Null

\* C6: for every list and every two ids found in it, the list handleDrop
\* makes has the dragged task at the index the target had, the other tasks
\* in the order they were in, and no task more or less; it is the same list
\* when the two ids are equal.  With no drag in progress, or with the dragged
\* or the target id not in the list, handleDrop changes nothing: no step
\* taken then changes the list or queues another.
C6_Reorder ==
    /\ [](\A d, t \in DragIds :
            LET di == IndexOfId(todos, d)
                ti == IndexOfId(todos, t)
                new == DropList(todos, d, t)
            IN  (di # 0 /\ ti # 0)
                    => /\ Len(new) = Len(todos)
                       /\ new[ti] = todos[di]
                       /\ Without(new, ti) = Without(todos, di)
                       /\ (d = t => new = todos))
    /\ [][ \A t \in DragIds :
             (pc = "ready" /\ DropReturnsEarlyAsClaimed(t))
                 => (handleDrop(t) => UNCHANGED << todos, queued, pc >>)
         ]_vars

\* C6, witness: a task was dragged down the list, past one with its own id.
C6_Witness ==
    /\ pc = "dirty"
    /\ Len(todos) = 4
    /\ todos[1].id = todos[2].id /\ todos[1].text # todos[2].text
    /\ queued[1] = << todos[2], todos[3], todos[1], todos[4] >>
    /\ draggedItem = Null

\* Two characters that are the same letter, in either case.
SameLetter(c, d) ==
    \/ c = d
    \/ {c, d} = {"a", "A"}
    \/ {c, d} = {"b", "B"}

\* Whether term occurs in text, case aside.
Occurs(term, text) ==
    \E from \in 0..(Len(text) - Len(term)) :
        \A k \in 1..Len(term) : SameLetter(text[from + k], term[k])

\* What C7 has a task pass.
Passes(todo) ==
    /\ \/ filter = "all"
       \/ filter = "active" /\ ~todo.completed
       \/ filter = "completed" /\ todo.completed
    /\ \/ Occurs(searchTerm, todo.text)
       \/ todo.notes # Undefined /\ Occurs(searchTerm, todo.notes[1])
    /\ selectedCategory # EmptyString => todo.category = selectedCategory

Count(list, todo) == Cardinality({i \in DOMAIN list : list[i] = todo})

\* C7: under every status filter, search term and category, the view holds
\* the tasks of the list that pass all three, each as often as the list
\* holds it, and nothing else; the empty search term and the empty category
\* let every task pass.
C7_ViewIsTheFilteredList ==
    LET view == filteredAndSortedTodos
    IN  /\ \A i \in DOMAIN todos :
              Count(view, todos[i])
                  = IF Passes(todos[i]) THEN Count(todos, todos[i]) ELSE 0
        /\ \A i \in DOMAIN view : \E j \in DOMAIN todos : view[i] = todos[j]
        /\ (filter = "all" /\ searchTerm = EmptyString
               /\ selectedCategory = EmptyString) => Len(view) = Len(todos)

\* C7, witness: active tasks of a category are searched for "B"; one task
\* is in the view for its notes alone, the other is filtered out.
C7_Witness ==
    /\ filter = "active" /\ searchTerm = << "B" >>
    /\ selectedCategory = << "w" >>
    /\ Len(todos) = 2 /\ Len(filteredAndSortedTodos) = 1
    /\ filteredAndSortedTodos[1].text = << "a" >>
    /\ filteredAndSortedTodos[1].notes = Some(<< "A", "b" >>)

PositionOf(todo) == CHOOSE i \in DOMAIN todos : todos[i] = todo

\* C8: sorted by priority, the view has every high task before every medium
\* one and every medium task before every low one, and tasks of one priority
\* in the order the list has them.
C8_PrioritySortIsStable ==
    sort = "priority" =>
        LET view == filteredAndSortedTodos
        IN  \A i, j \in DOMAIN view :
                i < j =>
                    /\ priorityOrder(view[i].priority)
                           >= priorityOrder(view[j].priority)
                    /\ view[i].priority = view[j].priority
                           => PositionOf(view[i]) < PositionOf(view[j])

\* C8, witness: [A(high), B(medium), C(high)] is shown as [A, C, B].
C8_Witness ==
    /\ sort = "priority" /\ filter = "all" /\ searchTerm = EmptyString
    /\ selectedCategory = EmptyString
    /\ [i \in DOMAIN todos |-> todos[i].priority]
           = << "high", "medium", "high" >>
    /\ filteredAndSortedTodos = << todos[1], todos[3], todos[2] >>

\* C9: sorted by due date, the view has every task with a due date before
\* every task without one, the tasks with a due date in ascending order of
\* it, and the tasks without one in the order the list has them.
C9_DueDateSort ==
    sort = "dueDate" =>
        LET view == filteredAndSortedTodos
        IN  \A i, j \in DOMAIN view :
                i < j =>
                    /\ view[i].dueDate = Undefined
                           => view[j].dueDate = Undefined
                    /\ (view[i].dueDate # Undefined
                            /\ view[j].dueDate # Undefined)
                           => view[i].dueDate[1][1] <= view[j].dueDate[1][1]
                    /\ (view[i].dueDate = Undefined
                            /\ view[j].dueDate = Undefined)
                           => PositionOf(view[i]) < PositionOf(view[j])

\* C9, witness: [no date, due 2, due 1] is shown as [due 1, due 2, no date].
C9_Witness ==
    /\ sort = "dueDate" /\ filter = "all" /\ searchTerm = EmptyString
    /\ selectedCategory = EmptyString
    /\ [i \in DOMAIN todos |-> todos[i].dueDate]
           = << Undefined, Some(<< 2 >>), Some(<< 1 >>) >>
    /\ filteredAndSortedTodos = << todos[3], todos[2], todos[1] >>

\* The tasks of a list that are due before now and not completed.
OverdueAt(list, now) ==
    {i \in DOMAIN list :
        /\ list[i].dueDate # Undefined
        /\ list[i].dueDate[1][1] < now
        /\ ~list[i].completed}

\* C10, the relations alone: at every instant the statistics of the list
\* have active = total - completed and overdue = the number of tasks due
\* before that instant and not completed.
C10_Relations ==
    \A now \in Instants :
        /\ Stats(todos, now).total = Len(todos)
        /\ Stats(todos, now).active
               = Stats(todos, now).total - Stats(todos, now).completed
        /\ Stats(todos, now).overdue = Cardinality(OverdueAt(todos, now))

\* C10: the relations hold in every reachable state, and toggling a task
\* that is overdue and not completed lowers the overdue count by exactly
\* one.
C10_Statistics ==
    /\ C10_Relations
    /\ \A now \in Instants : \A i \in OverdueAt(todos, now) :
           Stats(ToggleList(todos, todos[i].id), now).overdue
               = Stats(todos, now).overdue - 1

-----------------------------------------------------------------------------
(* The list operations.                                                    *)

\* C11: for every list and every id, toggling the id twice gives the list
\* back as it was, and the list in between has the same length and order
\* and differs from it in completed flags only.
C11_ToggleTwiceRestores ==
    \A id \in Ids :
        LET once == ToggleList(todos, id)
            twice == ToggleList(once, id)
        IN  /\ twice = todos
            /\ Len(once) = Len(todos)
            /\ \A i \in DOMAIN todos :
                   WithCompleted(once[i], todos[i].completed) = todos[i]

\* C11, witness: a completed task has been toggled, and the list that waits
\* to be rendered has it not completed; toggling again gives the list back.
C11_Witness ==
    /\ pc = "dirty"
    /\ Len(todos) = 2
    /\ todos[1].completed /\ ~queued[1][1].completed
    /\ \E id \in Ids : /\ queued[1] = ToggleList(todos, id)
                       /\ ToggleList(queued[1], id) = todos

\* The tasks of a list that are not completed, in the order of the list.
RECURSIVE Uncompleted(_)
Uncompleted(list) ==
    IF list = << >> THEN << >>
    ELSE (IF Head(list).completed THEN << >> ELSE << Head(list) >>)
             \o Uncompleted(Tail(list))

\* C12: the list clearCompleted makes has no completed task, and it is the
\* tasks that were not completed, each as it was, in the order they had.
C12_ClearCompleted ==
    [][ clearCompleted
            => /\ \A i \in DOMAIN queued'[1] : ~queued'[1][i].completed
               /\ queued'[1] = Uncompleted(todos)
      ]_vars

\* C12, witness: a list of a completed and a not completed task has been
\* cleared, and the one not completed waits to be rendered.
C12_Witness ==
    /\ pc = "dirty"
    /\ Len(todos) = 2
    /\ todos[1].completed /\ ~todos[2].completed
    /\ queued = Some(<< todos[2] >>)

\* A text of white space only, the empty text included.
IsBlank(s) == \A i \in DOMAIN s : s[i] = " "

\* C13: an add with a blank text in the form, and a save of an edit with a
\* blank text in the edit box, change nothing: not the list, not the stored
\* value, not the fields of the form, not the edit text nor the id of the
\* task being edited.
C13_RejectedKeepsDraft ==
    [][ /\ \A now \in Instants :
              (IsBlank(input) /\ addTodo(now))
                  => UNCHANGED << todos, queued, localStorage, formVars,
                                  editVars >>
        /\ \A id \in Ids :
              (IsBlank(editText) /\ saveEdit(id))
                  => UNCHANGED << todos, queued, localStorage, formVars,
                                  editVars >>
      ]_vars

\* C13, witness: the form and the edit box each hold a blank and not empty
\* text, with a task being edited, and the component accepts events.
C13_Witness ==
    /\ pc = "ready"
    /\ todos # << >>
    /\ input = << " " >>
    /\ editingTodo # Null
    /\ editText = << " " >>

\* C14: toggleTodo, deleteTodo and updatePriority with an id that no task of
\* the list has pass the list as it is to setTodos; handleDrop with the
\* dragged or the target id not in the list changes nothing; and deleting an
\* id from a list it was deleted from gives the same list.
C14_UnknownIdIsNoOp ==
    /\ [](\A id \in Ids :
             DeleteList(DeleteList(todos, id), id) = DeleteList(todos, id))
    /\ [][ \A id \in Ids :
             (\A i \in DOMAIN todos : todos[i].id # id)
                 => /\ toggleTodo(id) => queued' = Some(todos)
                    /\ deleteTodo(id) => queued' = Some(todos)
                    /\ \A p \in NewPriorities :
                           updatePriority(id, p) => queued' = Some(todos)
                    /\ handleDrop(id) => UNCHANGED << todos, queued >>
                    /\ draggedItem = Some(id)
                           => \A t \in Ids :
                                  handleDrop(t) => UNCHANGED << todos, queued >>
         ]_vars

\* C14, witness: an operation on an id that is not in the list has passed
\* the list, as it is, to setTodos, while a task of that id is dragged.
C14_Witness ==
    /\ pc = "dirty"
    /\ todos # << >>
    /\ queued = Some(todos)
    /\ \E id \in Ids : /\ \A i \in DOMAIN todos : todos[i].id # id
                       /\ draggedItem = Some(id)

-----------------------------------------------------------------------------
(* The view and the list.                                                  *)

\* Whether sub is list with some of its elements left out.
RECURSIVE IsSubsequence(_, _)
IsSubsequence(sub, list) ==
    IF sub = << >> THEN TRUE
    ELSE IF list = << >> THEN FALSE
    ELSE IF Head(sub) = Head(list)
         THEN IsSubsequence(Tail(sub), Tail(list))
         ELSE IsSubsequence(sub, Tail(list))

\* C15: a change of the status filter, the sort mode, the search term or the
\* category filter changes neither the list nor what is queued for it nor
\* the stored value, and the stored value of the mounted component is the
\* serialization of the list whatever the view shows; the lists that
\* toggleTodo, saveEdit, updatePriority and markAllComplete make have the
\* ids of the list at the same positions, the lists that deleteTodo and
\* clearCompleted make are the list with tasks left out, and addTodo puts
\* its task in front of the list as it is.
C15_ViewNeverChangesTheList ==
    /\ [][ /\ \A f \in Filters :
                setFilter(f) => UNCHANGED << todos, queued, localStorage >>
          /\ \A by \in Sorts :
                setSort(by) => UNCHANGED << todos, queued, localStorage >>
          /\ \A term \in SearchTerms :
                setSearchTerm(term)
                    => UNCHANGED << todos, queued, localStorage >>
          /\ \A category \in Categories \cup {EmptyString} :
                setSelectedCategory(category)
                    => UNCHANGED << todos, queued, localStorage >>
        ]_vars
    /\ [](Mounted => localStorage = Stringify(todos))
    /\ [](\A id \in Ids :
             /\ IdsOf(ToggleList(todos, id)) = IdsOf(todos)
             /\ IdsOf(MarkAllList(todos)) = IdsOf(todos)
             /\ \A text \in EditTexts :
                    IdsOf(EditList(todos, id, text)) = IdsOf(todos)
             /\ \A p \in Priorities :
                    IdsOf(PriorityList(todos, id, p)) = IdsOf(todos)
             /\ IsSubsequence(DeleteList(todos, id), todos)
             /\ IsSubsequence(ClearCompletedList(todos), todos)
             /\ Tail(AddTodoList(todos, id)) = todos)

\* C15, witness: the view shows the two tasks of the list in the other
\* order, the second only under another filter, and the list is as it was.
C15_Witness ==
    /\ pc = "ready"
    /\ Len(todos) = 2
    /\ sort = "alphabetical" /\ filter = "active"
    /\ searchTerm = << "a" >>
    /\ selectedCategory # EmptyString
    /\ SortWith(todos, "created") = << todos[2], todos[1] >>
    /\ filteredAndSortedTodos = << todos[1] >>
    /\ localStorage = Stringify(todos)

-----------------------------------------------------------------------------
(* One operation after another.                                            *)

\* The list the operations so far have made: the one queued, if there is
\* one, else the one rendered.
Latest == IF queued = << >> THEN todos ELSE queued[1]

\* C16: in every step that queues a list, none was queued before it, and
\* the handler that takes the step passes to setTodos its operation applied
\* to the list the operations before it have made, though it computes it
\* from the list of the last render; and in every step that takes the
\* queued list away, that list is the one rendered.  So a list queued is
\* rendered, never replaced by another before it is.
C16_NoMutationLost ==
    [][ /\ (queued' # queued /\ queued' # << >>)
               => /\ queued = << >>
                  /\ \A now \in Instants :
                        (~IsBlank(input) /\ addTodo(now))
                            => queued' = Some(AddTodoList(Latest, now))
                  /\ \A id \in Ids :
                        /\ toggleTodo(id)
                               => queued' = Some(ToggleList(Latest, id))
                        /\ deleteTodo(id)
                               => queued' = Some(DeleteList(Latest, id))
                        /\ (~IsBlank(editText) /\ saveEdit(id))
                               => queued'
                                      = Some(EditList(Latest, id, editText))
                        /\ \A p \in NewPriorities :
                               updatePriority(id, p)
                                   => queued'
                                          = Some(PriorityList(Latest, id, p))
                        /\ handleDrop(id)
                               => queued'
                                      = Some(DropList(Latest, draggedItem[1],
                                                      id))
                  /\ clearCompleted
                        => queued' = Some(ClearCompletedList(Latest))
                  /\ markAllComplete => queued' = Some(MarkAllList(Latest))
        /\ (queued' # queued /\ queued' = << >>) => todos' = queued[1]
      ]_vars

\* C16, witness: two adds and a toggle have been rendered, each on the list
\* of the one before, and a delete of the other task waits to be.
C16_Witness ==
    /\ pc = "dirty"
    /\ Len(todos) = 2
    /\ todos[1].completed /\ ~todos[2].completed
    /\ todos[1].id # todos[2].id
    /\ queued = Some(<< todos[1] >>)

-----------------------------------------------------------------------------
(* Startup.                                                                *)

\* C17: when the page is loaded with the serialization of a list that is
\* not empty in storage, no step from the page load to the end of the mount
\* effects changes the stored value: in no state of the startup does
\* storage hold anything but that serialization.
C17_StartupKeepsStorage ==
    [][ (/\ pc \in {"init", "mounted", "loaded"}
         /\ localStorage.kind = "array"
         /\ localStorage.items # << >>)
            => localStorage' = localStorage
      ]_vars

-----------------------------------------------------------------------------
(* The category of the form and of the view.                               *)

\* C18: the category chosen in the form is the category the view is
\* filtered by: while one is chosen the view shows tasks of that category
\* only.  An add that is accepted gives its task the chosen category, or
\* the new category typed in when none is chosen, and leaves none chosen,
\* so that no task is kept from the view for its category, and leaves
\* filter, sort and search term as they are; an add that is rejected
\* changes neither the chosen category nor those three.
C18_FormCategoryIsViewCategory ==
    /\ [](selectedCategory # EmptyString
            => \A i \in DOMAIN filteredAndSortedTodos :
                   filteredAndSortedTodos[i].category = selectedCategory)
    /\ [][ \A now \in Instants :
             addTodo(now)
                 => IF IsBlank(input)
                    THEN UNCHANGED << selectedCategory, viewVars >>
                    ELSE /\ queued'[1][1].category
                              = (IF selectedCategory # EmptyString
                                 THEN selectedCategory ELSE newCategory)
                         /\ selectedCategory' = EmptyString
                         /\ \A i \in DOMAIN queued'[1] :
                                CategoryFilter(queued'[1][i],
                                               selectedCategory')
                         /\ UNCHANGED viewVars
         ]_vars

\* C18, witness: with the view filtered, sorted and searched, a task has
\* been added under the category of the task there was while another new
\* category could only have been typed in; none is chosen now.
C18_Witness ==
    /\ pc = "dirty"
    /\ Len(todos) = 1
    /\ todos[1].category = << "w" >>
    /\ queued[1][1].category = << "w" >>
    /\ filter = "active" /\ sort = "priority" /\ searchTerm = << "a" >>
    /\ selectedCategory = EmptyString
    /\ newCategory = EmptyString

====
